---- MODULE Spec2Model ----
(***************************************************************************)
(* The /api/events route of places-history: parameter validation, the      *)
(* connectivity test, the cached primary Wikidata query, the fallback      *)
(* query and the two GeoJSON shapers.                                      *)
(*                                                                         *)
(* Numbers are integers: coordinates are whole degrees near the equator    *)
(* and distances are whole kilometres.  Strings that the code passes to    *)
(* parseFloat / parseInt are tokens [k, v]: absent (undefined / null),     *)
(* empty (""), num (the decimal text of v), numjunk (the text of v         *)
(* followed by letters, "1abc") and junk (text with no numeric prefix).    *)
(***************************************************************************)
EXTENDS Integers, Sequences, FiniteSets, TLC

(* ---------------------------- bounds ---------------------------------- *)
MaxRows == 2        \* rows in one upstream answer
MaxRequests == 2    \* requests served in one behaviour
MaxTicks == 1       \* clock ticks in one behaviour
MaxCallers == 2     \* requests suspended in cachedQueryWikidata at once
MaxCallsEach == 2   \* calls of cachedQueryWikidata by one caller
MaxBulkRows == 52   \* rows in one long upstream answer
MaxBoxOffset == 5   \* degrees between a center and the points tried
MaxLocations == 2   \* places on the map: 1 is the default location
MaxClicks == 2      \* map clicks in one behaviour
TickSeconds == 3600 \* seconds per clock tick

(* ------------------------ program constants --------------------------- *)
EarthRadiusKm == 6371
Revalidate == 3600
SliceLimit == 50
MinRadius == 1
MaxRadius == 500
DefaultStartYear == 1500
DEFAULT_RADIUS_MILES == 5
MILES_TO_KM_E5 == 160934
CurrentYear == 2025

DEFAULT_RADIUS_KM == (DEFAULT_RADIUS_MILES * MILES_TO_KM_E5) \div 100000

(* ----------------------------- strings -------------------------------- *)
Absent == [k |-> "absent", v |-> 0]
Empty == [k |-> "empty", v |-> 0]
Junk == [k |-> "junk", v |-> 0]
Num(n) == [k |-> "num", v |-> n]
NumJunk(n) == [k |-> "numjunk", v |-> n]

NaN == [nan |-> TRUE, v |-> 0]
Number(n) == [nan |-> FALSE, v |-> n]

\* JS `s || d` on an optional string: undefined, null and "" are falsy.
OrDefault(s, d) == IF s.k \in {"absent", "empty"} THEN d ELSE s

\* parseFloat / parseInt read the longest numeric prefix, NaN when none.
parseFloat(s) == IF s.k \in {"num", "numjunk"} THEN Number(s.v) ELSE NaN

parseInt(s) == IF s.k \in {"num", "numjunk"} THEN Number(s.v) ELSE NaN

isNaN(x) == x.nan

(* ----------------------------- distance ------------------------------- *)
RECURSIVE IsqrtIn(_, _, _)
\* The largest r in lo..hi with r * r <= n, by bisection.
IsqrtIn(n, lo, hi) ==
    IF lo >= hi THEN lo
    ELSE LET mid == (lo + hi + 1) \div 2
         IN  IF mid * mid <= n THEN IsqrtIn(n, mid, hi) ELSE IsqrtIn(n, lo, mid - 1)

\* 46340 is the largest root whose square is a 32-bit integer.
Isqrt(n) == IsqrtIn(n, 0, IF n < 46340 THEN n ELSE 46340)

\* R * pi / 180, the kilometres in one degree of a great circle.
KmPerDegree == (EarthRadiusKm * 31416) \div 1800000

\* sin^2(dLng / 2) has period 360 degrees and is even: a difference in
\* longitude counts as the shorter way round.
ShorterWay(dLng) ==
    LET d == (IF dLng < 0 THEN -dLng ELSE dLng) % 360
    IN  IF d > 180 THEN 360 - d ELSE d

\* The haversine distance for whole degrees near the equator, where
\* cos(lat) is 1 to three places: R * sqrt(dLat^2 + dLng^2), in whole km.
calculateDistance(lat1, lng1, lat2, lng2) ==
    Isqrt(KmPerDegree * KmPerDegree *
          ((lat2 - lat1) * (lat2 - lat1)
           + ShorterWay(lng2 - lng1) * ShorterWay(lng2 - lng1)))

(* --------------------------- bounding box ----------------------------- *)
\* Degrees are thousandths here: 111.32 km per degree and the 0.1 degree
\* buffer of the tiers' bounding box.
KmPerDegreeBoxE2 == 11132
BufferE3 == 100

\* cos(|lat| * pi / 180) in thousandths, for centers within a degree of the
\* equator.
cosE3(lat) == 1000

\* minLat, maxLat, minLng, maxLng of the tiers, in thousandths of a degree.
boundingBox(lat, lng, radius) ==
    LET latDelta == (radius * 100000) \div KmPerDegreeBoxE2
        lngDelta == (((radius * 1000000) \div KmPerDegreeBoxE2) * 100) \div cosE3(lat)
    IN  [minLat |-> lat * 1000 - latDelta - BufferE3,
         maxLat |-> lat * 1000 + latDelta + BufferE3,
         minLng |-> lng * 1000 - lngDelta - BufferE3,
         maxLng |-> lng * 1000 + lngDelta + BufferE3]

\* The two FILTER lines of the SPARQL text, on a point in whole degrees.
inBoundingBox(b, lat, lng) ==
    /\ lat * 1000 >= b.minLat
    /\ lat * 1000 <= b.maxLat
    /\ lng * 1000 >= b.minLng
    /\ lng * 1000 <= b.maxLng

(* ------------------------- upstream answers --------------------------- *)
NoLocation == [k |-> "absent", a |-> Absent, b |-> Absent]
Point(a, b) == [k |-> "point", a |-> a, b |-> b]   \* "Point(a b)"

\* One result row; date is the year of its date string ("1800-01-01T00:00:00Z"
\* is Num(1800)), Absent when the row has none.
Binding(id, lat, lng, location, date) ==
    [id |-> id, lat |-> lat, lng |-> lng, location |-> location, date |-> date]

\* The rows an upstream answer is made of: the upstream is not trusted, so
\* rows inside and outside the radius, without coordinates, with
\* non-numeric coordinates, and with a geometry string only; dated inside
\* and outside the years asked for, and undated.
Bindings ==
    { Binding(1, Num(0), Num(0), NoLocation, Num(1800)),
      Binding(2, Absent, Absent, Point(Num(1), Num(0)), Num(1400)),
      Binding(3, Num(2), Num(0), NoLocation, Num(2010)),
      Binding(4, Absent, Absent, NoLocation, Absent),
      Binding(5, Junk, Num(0), Point(Num(0), Num(1)), Num(1900)) }

RECURSIVE SeqsUpTo(_, _)
SeqsUpTo(S, n) ==
    IF n = 0 THEN {<<>>}
    ELSE LET shorter == SeqsUpTo(S, n - 1)
         IN  shorter \cup {Append(s, x) : s \in shorter, x \in S}

Answer(kind, status, rows) == [kind |-> kind, status |-> status, rows |-> rows]

\* What one fetch can come back with: a 200 with result rows, a 200 without
\* results.bindings, a 200 whose body is not JSON, an HTTP error, a timeout.
Answers ==
    {Answer("ok", 200, rows) : rows \in SeqsUpTo(Bindings, MaxRows)}
    \cup {Answer("nobindings", 200, <<>>), Answer("badjson", 200, <<>>),
          Answer("http", 500, <<>>), Answer("http", 429, <<>>),
          Answer("http", 503, <<>>), Answer("timeout", 0, <<>>)}

(* --------------------------- tier pipeline ---------------------------- *)
Min(a, b) == IF a <= b THEN a ELSE b

\* slice that keeps the whole sequence.
sliceAll(s, n) == s

slice(s, n) == SubSeq(s, 1, Min(n, Len(s)))

\* formattedDate: the date part of the row's date string, which keeps its
\* year, or 'Unknown date'.
formatDate(date) == IF date.k \in {"absent", "empty"} THEN Junk ELSE date

\* parseBinding that reads "Point(a b)" latitude first.
parseBindingLatFirst(b) ==
    LET itemLat == OrDefault(b.lat, Num(0))
        itemLng == OrDefault(b.lng, Num(0))
        manual == (itemLat = Num(0) \/ itemLng = Num(0)) /\ b.location.k = "point"
    IN  [id |-> b.id,
         lat |-> IF manual THEN b.location.a ELSE itemLat,
         lng |-> IF manual THEN b.location.b ELSE itemLng,
         date |-> formatDate(b.date),
         distance |-> -1]

\* One binding to one item: the coordinates of the row, '0' when missing,
\* re-read from the geometry string when either is '0'.
parseBinding(b) ==
    LET itemLat == OrDefault(b.lat, Num(0))
        itemLng == OrDefault(b.lng, Num(0))
        manual == (itemLat = Num(0) \/ itemLng = Num(0)) /\ b.location.k = "point"
    IN  [id |-> b.id,
         lat |-> IF manual THEN b.location.b ELSE itemLat,
         lng |-> IF manual THEN b.location.a ELSE itemLng,
         date |-> formatDate(b.date),
         distance |-> -1]

\* withinRadius without the comparison against the radius.
withinRadiusUnlimited(item, lat, lng, radius) ==
    ~isNaN(parseFloat(item.lat)) /\ ~isNaN(parseFloat(item.lng))

withinRadius(item, lat, lng, radius) ==
    LET itemLat == parseFloat(item.lat)
        itemLng == parseFloat(item.lng)
    IN  /\ ~isNaN(itemLat)
        /\ ~isNaN(itemLng)
        /\ calculateDistance(lat, lng, itemLat.v, itemLng.v) <= radius

\* items.map(distance or null).filter(not null).slice(0, 50)
filterItems(items, lat, lng, radius) ==
    LET keep(item) == withinRadius(item, lat, lng, radius)
        kept == SelectSeq(items, keep)
        attach(item) ==
            [item EXCEPT !.distance =
                calculateDistance(lat, lng, parseFloat(item.lat).v, parseFloat(item.lng).v)]
    IN  slice([i \in 1..Len(kept) |-> attach(kept[i])], SliceLimit)

Returned(items) == [threw |-> FALSE, message |-> "", items |-> items]
Thrown(message) == [threw |-> TRUE, message |-> message, items |-> <<>>]

\* data.results.bindings.map(...)
parseBindings(rows) == [i \in 1..Len(rows) |-> parseBinding(rows[i])]

\* The message of the error raised inside the try block of queryWikidata.
fetchError(answer) ==
    CASE answer.kind = "timeout" -> "The operation was aborted due to timeout"
      [] answer.kind = "badjson" -> "Unexpected token < in JSON"
      [] answer.kind = "http" /\ answer.status = 500 ->
            "Wikidata server error - query may be too complex"
      [] answer.kind = "http" /\ answer.status = 429 ->
            "Wikidata rate limit exceeded - please wait before retrying"
      [] OTHER -> "Wikidata query failed"

\* The catch block of queryWikidata: every error is thrown again.
rethrow(message) ==
    CASE message = "The operation was aborted due to timeout" ->
            Thrown("Wikidata query timed out - please try again")
      [] message = "Wikidata server error - query may be too complex" ->
            Thrown("Wikidata is experiencing issues - please try again later")
      [] message = "Wikidata rate limit exceeded - please wait before retrying" ->
            Thrown("Too many requests to Wikidata - please wait before trying again")
      [] OTHER -> Thrown("Failed to query historical events from Wikidata")

\* queryWikidata that answers [] where it should throw, as the fallback does.
queryWikidataSwallows(lat, lng, radius, answer) ==
    CASE answer.kind \in {"timeout", "badjson", "http", "nobindings"} -> Returned(<<>>)
      [] OTHER -> Returned(filterItems(parseBindings(answer.rows), lat, lng, radius))

\* queryWikidata that throws on a body without results.bindings.
queryWikidataStrict(lat, lng, radius, answer) ==
    CASE answer.kind \in {"timeout", "badjson", "http"} -> rethrow(fetchError(answer))
      [] answer.kind = "nobindings" ->
            Thrown("Failed to query historical events from Wikidata")
      [] OTHER -> Returned(filterItems(parseBindings(answer.rows), lat, lng, radius))

queryWikidata(lat, lng, radius, answer) ==
    CASE answer.kind \in {"timeout", "badjson", "http"} -> rethrow(fetchError(answer))
      [] answer.kind = "nobindings" -> Returned(<<>>)
      [] OTHER -> Returned(filterItems(parseBindings(answer.rows), lat, lng, radius))

\* The fallback never throws: an HTTP error, a missing results.bindings
\* and every exception give [].
queryWikidataFallback(lat, lng, radius, answer) ==
    CASE answer.kind \in {"timeout", "badjson", "http", "nobindings"} -> <<>>
      [] OTHER -> filterItems(parseBindings(answer.rows), lat, lng, radius)

(* ------------------------------ shapers ------------------------------- *)
NoValue == -1

convertToGeoJSON(items, centerLat, centerLng) ==
    LET valid(item) == ~isNaN(parseFloat(item.lat)) /\ ~isNaN(parseFloat(item.lng))
        feature(item) ==
            [id |-> NoValue, lng |-> parseFloat(item.lng).v,
             lat |-> parseFloat(item.lat).v, date |-> Absent, distance |-> NoValue]
        kept == SelectSeq(items, valid)
    IN  [i \in 1..Len(kept) |-> feature(kept[i])]

convertToFullGeoJSON(items, centerLat, centerLng, radius) ==
    LET keep(item) == withinRadius(item, centerLat, centerLng, radius)
        feature(item) ==
            [id |-> item.id, lng |-> parseFloat(item.lng).v,
             lat |-> parseFloat(item.lat).v,
             date |-> item.date,
             distance |-> calculateDistance(centerLat, centerLng,
                             parseFloat(item.lat).v, parseFloat(item.lng).v)]
        kept == SelectSeq(items, keep)
    IN  [i \in 1..Len(kept) |-> feature(kept[i])]

(* ------------------------------ requests ------------------------------ *)
\* One request: its search parameters and whether it comes with the session
\* of a signed-in user.
Query(lat, lng, r, startYear, endYear, coordinates) ==
    [lat |-> lat, lng |-> lng, r |-> r, startYear |-> startYear,
     endYear |-> endYear, coordinates |-> coordinates, session |-> TRUE]

\* The same request sent without a session, as any HTTP client can.
Anonymous(q) == [q EXCEPT !.session = FALSE]

\* The requests the model sends: one well-formed request and every request
\* that differs from it in one parameter, in both output modes, and the
\* well-formed request without a session.
Queries ==
    LET lats == {Absent, Empty, Junk, NumJunk(1), Num(0), Num(1)}
        lngs == {Absent, Junk, Num(0)}
        rs == {Absent, Junk, Num(0), Num(111), Num(501)}
        starts == {Absent, Junk, Num(2000)}
        ends == {Absent, Junk, Num(1999), Num(CurrentYear + 1)}
        variants(c) ==
            {Query(lat, Num(0), Num(111), Absent, Absent, c) : lat \in lats}
            \cup {Query(Num(0), lng, Num(111), Absent, Absent, c) : lng \in lngs}
            \cup {Query(Num(0), Num(0), r, Absent, Absent, c) : r \in rs}
            \cup {Query(Num(0), Num(0), Num(111), s, Absent, c) : s \in starts}
            \cup {Query(Num(0), Num(0), Num(111), Num(2000), e, c) : e \in ends}
            \cup {Anonymous(Query(Num(0), Num(0), Num(111), Absent, Absent, c))}
    IN  variants(TRUE) \cup variants(FALSE)

\* Lines 706-713 of GET: the parameters as numbers.
parseParams(q) ==
    [lat |-> parseFloat(OrDefault(q.lat, Num(0))),
     lng |-> parseFloat(OrDefault(q.lng, Num(0))),
     radius |-> parseFloat(OrDefault(q.r, Num(DEFAULT_RADIUS_KM))),
     coordinatesOnly |-> q.coordinates,
     startYear |-> parseInt(OrDefault(q.startYear, Num(DefaultStartYear))),
     endYear |-> parseInt(OrDefault(q.endYear, Num(CurrentYear)))]

\* validationError without the two radius checks.
validationErrorNoRadius(p) ==
    CASE isNaN(p.lat) \/ isNaN(p.lng) \/ isNaN(p.radius) ->
            "Invalid parameters. lat, lng, and r must be valid numbers."
      [] isNaN(p.startYear) \/ isNaN(p.endYear) ->
            "Invalid year parameters. startYear and endYear must be valid numbers."
      [] p.startYear.v > p.endYear.v ->
            "startYear must be less than or equal to endYear."
      [] p.endYear.v > CurrentYear -> "endYear cannot be in the future."
      [] OTHER -> ""

\* The checks of GET in their order; "" when the request passes.
validationError(p) ==
    CASE isNaN(p.lat) \/ isNaN(p.lng) \/ isNaN(p.radius) ->
            "Invalid parameters. lat, lng, and r must be valid numbers."
      [] isNaN(p.startYear) \/ isNaN(p.endYear) ->
            "Invalid year parameters. startYear and endYear must be valid numbers."
      [] p.startYear.v > p.endYear.v ->
            "startYear must be less than or equal to endYear."
      [] p.endYear.v > CurrentYear -> "endYear cannot be in the future."
      [] p.radius.v < MinRadius -> "Radius too small. Minimum allowed is 1km."
      [] p.radius.v > MaxRadius ->
            "Radius too large. Maximum allowed is 500km (311 miles)."
      [] OTHER -> ""

\* cacheKey with the output mode as one more key part.
cacheKeyWithMode(p) ==
    <<p.lat.v, p.lng.v, p.radius.v, p.startYear.v, p.endYear.v, p.coordinatesOnly>>

\* The key parts unstable_cache is given.
cacheKey(p) ==
    <<p.lat.v, p.lng.v, p.radius.v, p.startYear.v, p.endYear.v>>

\* needsFallback that falls back whatever the primary returned.
needsFallbackAlways(items) == TRUE

needsFallback(items) == Len(items) = 0

shape(items, p) ==
    IF p.coordinatesOnly
    THEN convertToGeoJSON(items, p.lat.v, p.lng.v)
    ELSE convertToFullGeoJSON(items, p.lat.v, p.lng.v, p.radius.v)

GenericFailure == "Failed to fetch historical events"

\* failureBody that passes the message of the caught error on.
failureBodyLeaks(message) == message

\* The catch of GET: the error is logged, the body is the fixed text.
failureBody(message) == GenericFailure

(* ------------------------------- state -------------------------------- *)
VARIABLES
    pc,           \* where the handler is: idle, test, query, fallback, done
    query,        \* the query string of the request being served
    params,       \* its parsed parameters
    items,        \* the local variable items of GET
    status,       \* HTTP status of the response, 0 before it is sent
    body,         \* features of a 200 response
    errorText,    \* error of a 400 / 500 response
    cache,        \* the unstable_cache store: records [key, items, writtenAt]
    now,          \* clock, in ticks
    nreq,         \* requests received so far
    testCalls,    \* upstream fetches of this request, by kind
    primaryCalls,
    fallbackCalls,
    cacheReads,   \* cache lookups and writes of this request
    cacheWrites,
    primaryOut,   \* what queryWikidata did in this request
    fallbackOut,  \* what queryWikidataFallback returned in this request
    fromCache,    \* items came from an unexpired entry
    firstBody,    \* when the request before this one wrote the cache entry and
                  \* had this request's key and mode: the body it was answered
    primaryAnswer,  \* what the fetch of queryWikidata came back with
    fallbackAnswer, \* what the fetch of queryWikidataFallback came back with
    prev,         \* the request before this one, when it asked the same search
    inflight,     \* concurrent calls of cachedQueryWikidata, by caller
    bulk,         \* one call of a tier on a long upstream answer
    box,          \* one search circle, its bounding box and one point
    page          \* HomePage: its state and its fetches in flight

vars == <<pc, query, params, items, status, body, errorText, cache, now, nreq,
          testCalls, primaryCalls, fallbackCalls, cacheReads, cacheWrites,
          primaryOut, fallbackOut, fromCache, firstBody, primaryAnswer,
          fallbackAnswer, prev, inflight, bulk,
                   box, page>>

NotRun == [ran |-> FALSE, threw |-> FALSE, items |-> <<>>]
Ran(result) == [ran |-> TRUE, threw |-> result.threw, items |-> result.items]
NoBody == [known |-> FALSE, body |-> <<>>]

\* How a fetch ended: the kind and HTTP status of its answer.
NoAnswer == [kind |-> "none", status |-> 0]
Outcome(answer) == [kind |-> answer.kind, status |-> answer.status]

\* The fetch raised or was answered an HTTP error.
FetchFailed(outcome) == outcome.kind \in {"timeout", "http", "badjson"}

\* Two parsed requests ask the same search: the output mode is not part of it.
SameSearch(p1, p2) ==
    /\ p1.lat = p2.lat
    /\ p1.lng = p2.lng
    /\ p1.radius = p2.radius
    /\ p1.startYear = p2.startYear
    /\ p1.endYear = p2.endYear

NoEntry == [key |-> <<>>, items |-> <<>>, writtenAt |-> 0]
NoPrev == [known |-> FALSE, failed |-> FALSE, wrote |-> FALSE,
           coordinatesOnly |-> FALSE, entry |-> NoEntry]

NoQuery == Query(Absent, Absent, Absent, Absent, Absent, FALSE)

\* The callers of cachedQueryWikidata that may be suspended at once.
Callers == 1..MaxCallers

\* One caller: where it is in cachedQueryWikidata (idle, fetching: after a
\* lookup that found nothing and before the store, done), the parameters it
\* was called with, whether an entry for its key was stored after its lookup,
\* whether its own store replaced an unexpired entry, and its calls so far.
IdleCall == [pc |-> "idle", p |-> parseParams(NoQuery), overtaken |-> FALSE,
             replaced |-> FALSE, calls |-> 0]

NoCalls == [c \in Callers |-> IdleCall]

\* One tier called on one long answer: the rows, the tier and output mode,
\* and the features GET would return from them.
NoBulk == [stage |-> "none", rows |-> <<>>, tier |-> "primary",
           coordinatesOnly |-> FALSE, features |-> <<>>]

\* One search and one point of the upstream's data: whether the point
\* passes the bounding box filter and how far it is from the center.
NoBox == [stage |-> "none", lat |-> 0, lng |-> 0, radius |-> 0,
          pointLat |-> 0, pointLng |-> 0, inside |-> FALSE, distance |-> 0]
\* The places of the map; the first is the location HomePage starts with.
Locations == 1..MaxLocations

\* HomePage after its first render, before its effect has run: the state of
\* its useState hooks, the /api/events fetches in flight by location, whether
\* the effect on selectedLocation is due, and the clicks and the requests
\* they sent since the last response came in.
NoPage == [selected |-> 1, events |-> <<>>, isLoading |-> FALSE, error |-> "",
           pending |-> [l \in Locations |-> 0], effectDue |-> TRUE,
           clicks |-> 0, burstClicks |-> 0, burstRequests |-> 0]

Init ==
    /\ pc = "idle"
    /\ query = NoQuery
    /\ params = parseParams(NoQuery)
    /\ items = <<>>
    /\ status = 0
    /\ body = <<>>
    /\ errorText = ""
    /\ cache = {}
    /\ now = 0
    /\ nreq = 0
    /\ testCalls = 0
    /\ primaryCalls = 0
    /\ fallbackCalls = 0
    /\ cacheReads = 0
    /\ cacheWrites = 0
    /\ primaryOut = NotRun
    /\ fallbackOut = NotRun
    /\ fromCache = FALSE
    /\ firstBody = NoBody
    /\ primaryAnswer = NoAnswer
    /\ fallbackAnswer = NoAnswer
    /\ prev = NoPrev
    /\ inflight = NoCalls
    /\ bulk = NoBulk
    /\ box = NoBox
    /\ page = NoPage

Seconds(t) == t * TickSeconds

Fresh(entry) == Seconds(now) - Seconds(entry.writtenAt) < Revalidate

\* Lookup that never finds an entry.
LookupNothing(key) == {}

Lookup(key) == {e \in cache : e.key = key /\ Fresh(e)}

(* ------------------------------ actions ------------------------------- *)
\* GET up to its first await: parse, validate, answer 400 or go on.
Receive(q) ==
    /\ pc \in {"idle", "done"}
    /\ nreq < MaxRequests
    /\ nreq' = nreq + 1
    /\ query' = q
    /\ params' = parseParams(q)
    /\ items' = <<>>
    /\ body' = <<>>
    /\ testCalls' = 0
    /\ primaryCalls' = 0
    /\ fallbackCalls' = 0
    /\ cacheReads' = 0
    /\ cacheWrites' = 0
    /\ primaryOut' = NotRun
    /\ fallbackOut' = NotRun
    /\ fromCache' = FALSE
    /\ primaryAnswer' = NoAnswer
    /\ fallbackAnswer' = NoAnswer
    /\ prev' =
          IF /\ pc = "done"
             /\ status \in {200, 500}
             /\ validationError(parseParams(q)) = ""
             /\ SameSearch(parseParams(q), params)
          THEN [known |-> TRUE,
                failed |-> FetchFailed(primaryAnswer),
                wrote |-> cacheWrites = 1,
                coordinatesOnly |-> params.coordinatesOnly,
                entry |-> IF cacheWrites = 1
                          THEN CHOOSE e \in cache : e.key = cacheKey(params)
                          ELSE NoEntry]
          ELSE NoPrev
    /\ firstBody' =
          IF /\ pc = "done"
             /\ status = 200
             /\ cacheWrites = 1
             /\ validationError(parseParams(q)) = ""
             /\ cacheKey(parseParams(q)) = cacheKey(params)
             /\ q.coordinates = params.coordinatesOnly
          THEN [known |-> TRUE, body |-> body]
          ELSE NoBody
    /\ IF validationError(parseParams(q)) # ""
       THEN /\ pc' = "done"
            /\ status' = 400
            /\ errorText' = validationError(parseParams(q))
       ELSE /\ pc' = "test"
            /\ status' = 0
            /\ errorText' = ""
    /\ UNCHANGED <<cache, now, inflight, bulk,
                   box, page>>

\* await testWikidataConnection(): one fetch, every outcome swallowed.
TestConnection ==
    /\ pc = "test"
    /\ testCalls' = testCalls + 1
    /\ pc' = "query"
    /\ UNCHANGED <<query, params, items, status, body, errorText, cache, now,
                   nreq, primaryCalls, fallbackCalls, cacheReads, cacheWrites,
                            primaryOut, fallbackOut, fromCache, firstBody, primaryAnswer,
                   fallbackAnswer, prev, inflight, bulk,
                   box, page>>

\* Respond that answers the generic failure when there is nothing to return.
RespondFailsOnEmpty(finalItems) ==
    /\ pc' = "done"
    /\ status' = IF finalItems = <<>> THEN 500 ELSE 200
    /\ errorText' = IF finalItems = <<>> THEN GenericFailure ELSE ""
    /\ body' = shape(finalItems, params)

\* The rest of GET once items is final: shape and answer 200.
Respond(finalItems) ==
    /\ pc' = "done"
    /\ status' = 200
    /\ errorText' = ""
    /\ body' = shape(finalItems, params)

\* GET after the primary returned: fall back on no items, else answer.
AfterPrimary(primaryItems) ==
    IF needsFallback(primaryItems)
    THEN /\ pc' = "fallback"
         /\ UNCHANGED <<status, body, errorText>>
    ELSE Respond(primaryItems)

\* await cachedQueryWikidata(...): an unexpired entry is returned as it is.
CachedQueryHit ==
    /\ pc = "query"
    /\ \E e \in Lookup(cacheKey(params)) :
          /\ items' = e.items
          /\ fromCache' = TRUE
          /\ cacheReads' = cacheReads + 1
          /\ AfterPrimary(e.items)
    /\ UNCHANGED <<query, params, cache, now, nreq, testCalls, primaryCalls,
                   fallbackCalls, cacheWrites, primaryOut, fallbackOut, firstBody,
                   primaryAnswer, fallbackAnswer, prev, inflight, bulk,
                   box, page>>

\* await cachedQueryWikidata(...): no unexpired entry, queryWikidata runs;
\* its result is stored, its error is caught by GET and answered 500.
CachedQueryMiss(answer) ==
    /\ pc = "query"
    /\ Lookup(cacheKey(params)) = {}
    /\ cacheReads' = cacheReads + 1
    /\ primaryCalls' = primaryCalls + 1
    /\ LET result == queryWikidata(params.lat.v, params.lng.v, params.radius.v, answer)
       IN  /\ primaryOut' = Ran(result)
           /\ primaryAnswer' = Outcome(answer)
           /\ IF result.threw
              THEN /\ pc' = "done"
                   /\ status' = 500
                   /\ errorText' = failureBody(result.message)
                   /\ UNCHANGED <<items, body, cache, cacheWrites>>
              ELSE /\ items' = result.items
                   /\ cache' = {e \in cache : e.key # cacheKey(params)}
                               \cup {[key |-> cacheKey(params), items |-> result.items,
                                      writtenAt |-> now]}
                   /\ cacheWrites' = cacheWrites + 1
                   /\ AfterPrimary(result.items)
    /\ UNCHANGED <<query, params, now, nreq, testCalls, fallbackCalls,
                   fallbackOut, fromCache, firstBody, fallbackAnswer, prev,
                   inflight, bulk,
                   box, page>>

\* items = await queryWikidataFallback(...), then the answer.
Fallback(answer) ==
    /\ pc = "fallback"
    /\ fallbackCalls' = fallbackCalls + 1
    /\ LET result == queryWikidataFallback(params.lat.v, params.lng.v,
                                            params.radius.v, answer)
       IN  /\ fallbackOut' = Ran(Returned(result))
           /\ fallbackAnswer' = Outcome(answer)
           /\ items' = result
           /\ Respond(result)
    /\ UNCHANGED <<query, params, cache, now, nreq, testCalls, primaryCalls,
                   cacheReads, cacheWrites, primaryOut, fromCache, firstBody,
                   primaryAnswer, prev, inflight, bulk,
                   box, page>>

\* The clock moves between requests: a request reads it once, at the lookup.
Tick ==
    /\ pc \in {"idle", "done"}
    /\ now < MaxTicks
    /\ now' = now + 1
    /\ UNCHANGED <<pc, query, params, items, status, body, errorText, cache, nreq,
                   testCalls, primaryCalls, fallbackCalls, cacheReads, cacheWrites,
                            primaryOut, fallbackOut, fromCache, firstBody, primaryAnswer,
                   fallbackAnswer, prev, inflight, bulk,
                   box, page>>

Next ==
    \/ \E q \in Queries : Receive(q)
    \/ TestConnection
    \/ CachedQueryHit
    \/ \E answer \in Answers : CachedQueryMiss(answer)
    \/ \E answer \in Answers : Fallback(answer)
    \/ Tick

Spec == Init /\ [][Next]_vars

\* The fetches of queryWikidata and queryWikidataFallback carry
\* AbortSignal.timeout(30000): each ends within 30 seconds whether or not
\* the upstream answers, so the step that completes it is always taken.
\* The fetch of testWikidataConnection carries no signal: it ends when the
\* upstream answers, and nothing makes the upstream answer.
FairSpec ==
    /\ Spec
    /\ WF_vars(CachedQueryHit)
    /\ WF_vars(\E answer \in Answers : CachedQueryMiss(answer))
    /\ WF_vars(\E answer \in Answers : Fallback(answer))

(* ------------------- concurrent cachedQueryWikidata ------------------- *)
\* Requests are suspended at `await cached()`: the lookup of unstable_cache,
\* the fetch of queryWikidata and the store are steps of their own, and the
\* steps of different requests interleave.
requestVars == <<pc, query, params, items, status, body, errorText, nreq,
                 testCalls, primaryCalls, fallbackCalls, cacheReads, cacheWrites,
                 primaryOut, fallbackOut, fromCache, firstBody, primaryAnswer,
                 fallbackAnswer, prev>>

\* The searches the concurrent callers ask for: two keys.
ConcParams ==
    {parseParams(Query(lat, Num(0), Num(111), Absent, Absent, FALSE)) :
        lat \in {Num(0), Num(1)}}

\* The answers their fetches get: at most one row.
ConcAnswers == {answer \in Answers : Len(answer.rows) <= 1}

\* cached() up to the callback: an unexpired entry is returned, else the
\* callback starts and the caller is suspended at its fetch.
CallLookup(c, p) ==
    /\ inflight[c].pc \in {"idle", "done"}
    /\ inflight[c].calls < MaxCallsEach
    /\ inflight' = [inflight EXCEPT ![c] =
          [pc |-> IF Lookup(cacheKey(p)) # {} THEN "done" ELSE "fetching",
           p |-> p, overtaken |-> FALSE, replaced |-> FALSE,
           calls |-> inflight[c].calls + 1]]
    /\ UNCHANGED <<requestVars, cache, now, bulk, box, page>>

\* The callback settles: its error is passed on and nothing is stored; its
\* result is stored under the key, in place of the entry found there.
CallStore(c, answer) ==
    /\ inflight[c].pc = "fetching"
    /\ LET p == inflight[c].p
           result == queryWikidata(p.lat.v, p.lng.v, p.radius.v, answer)
           entry == [key |-> cacheKey(p), items |-> result.items, writtenAt |-> now]
           sameKey(d) == d # c /\ inflight[d].pc = "fetching"
                               /\ cacheKey(inflight[d].p) = cacheKey(p)
       IN  IF result.threw
           THEN /\ inflight' = [inflight EXCEPT ![c].pc = "done"]
                /\ UNCHANGED cache
           ELSE /\ cache' = {e \in cache : e.key # cacheKey(p)} \cup {entry}
                /\ inflight' =
                      [d \in Callers |->
                          IF d = c
                          THEN [inflight[c] EXCEPT
                                  !.pc = "done",
                                  !.replaced = \E e \in Lookup(cacheKey(p)) : e # entry]
                          ELSE IF sameKey(d)
                               THEN [inflight[d] EXCEPT !.overtaken = TRUE]
                               ELSE inflight[d]]
    /\ UNCHANGED <<requestVars, now, bulk, box, page>>

\* The clock moves at any time: callers are suspended across it.
ConcTick ==
    /\ now < MaxTicks
    /\ now' = now + 1
    /\ UNCHANGED <<requestVars, cache, inflight, bulk,
                   box, page>>

ConcNext ==
    \/ \E c \in Callers, p \in ConcParams : CallLookup(c, p)
    \/ \E c \in Callers, answer \in ConcAnswers : CallStore(c, answer)
    \/ ConcTick

ConcSpec == Init /\ [][ConcNext]_vars

(* ----------------------- long upstream answers ------------------------ *)
\* Row i of a long answer, by the pattern of the answer:
\*   near      every row at the center;
\*   mixed     every third row two degrees away, outside the radius;
\*   farfirst  the first two rows one degree away, at the radius, the rest
\*             at the center;
\*   located   no lat / lng, geometry string "Point(1 0)";
\*   unparsed  lat that is no number, lng 1, geometry string "Point(1 0)".
BulkRow(i, pattern) ==
    CASE pattern = "mixed" ->
            Binding(i, IF i % 3 = 0 THEN Num(2) ELSE Num(0), Num(0), NoLocation, Num(1800))
      [] pattern = "farfirst" ->
            Binding(i, IF i <= 2 THEN Num(1) ELSE Num(0), Num(0), NoLocation, Num(1800))
      [] pattern = "located" ->
            Binding(i, Absent, Absent, Point(Num(1), Num(0)), Num(1800))
      [] pattern = "unparsed" ->
            Binding(i, Junk, Num(1), Point(Num(1), Num(0)), Num(1800))
      [] OTHER -> Binding(i, Num(0), Num(0), NoLocation, Num(1800))

BulkPatterns == {"near", "mixed", "farfirst", "located", "unparsed"}

BulkRows(n, pattern) == [i \in 1..n |-> BulkRow(i, pattern)]

\* The request the long answers are for: center (0, 0), radius 111 km.
BulkParams(coordinatesOnly) ==
    parseParams(Query(Num(0), Num(0), Num(111), Absent, Absent, coordinatesOnly))

\* The upstream answers a tier's fetch with n rows.
BulkAnswer(n, pattern, tier, coordinatesOnly) ==
    /\ bulk.stage = "none"
    /\ bulk' = [stage |-> "answered", rows |-> BulkRows(n, pattern), tier |-> tier,
                coordinatesOnly |-> coordinatesOnly, features |-> <<>>]
    /\ UNCHANGED <<requestVars, cache, now, inflight, box, page>>

\* The tier turns the rows into items and GET shapes them.
BulkReturn ==
    /\ bulk.stage = "answered"
    /\ LET p == BulkParams(bulk.coordinatesOnly)
           answer == Answer("ok", 200, bulk.rows)
           tierItems ==
               IF bulk.tier = "primary"
               THEN queryWikidata(p.lat.v, p.lng.v, p.radius.v, answer).items
               ELSE queryWikidataFallback(p.lat.v, p.lng.v, p.radius.v, answer)
       IN  bulk' = [bulk EXCEPT !.stage = "returned", !.features = shape(tierItems, p)]
    /\ UNCHANGED <<requestVars, cache, now, inflight, box, page>>

BulkNext ==
    \/ \E n \in 0..MaxBulkRows, pattern \in BulkPatterns,
          tier \in {"primary", "fallback"}, coordinatesOnly \in BOOLEAN :
            BulkAnswer(n, pattern, tier, coordinatesOnly)
    \/ BulkReturn

BulkSpec == Init /\ [][BulkNext]_vars

(* ---------------------- bounding box and circle ----------------------- *)
\* Centers on the equator, away from and at the 180th meridian.
BoxLongitudes == {0, 179, 180, -180}

BoxRadii == {MinRadius, 150, MaxRadius}

\* Longitudes as the upstream stores them, in -180..180, within MaxBoxOffset
\* degrees of one of the centers.
PointLongitudes ==
    {l \in -180..180 :
        \E c \in BoxLongitudes : ShorterWay(l - c) <= MaxBoxOffset}

\* A tier is called for a center and radius; the point is an item of the
\* upstream's data.
BoxAsk(lng, radius, pointLat, pointLng) ==
    /\ box.stage = "none"
    /\ box' = [stage |-> "asked", lat |-> 0, lng |-> lng, radius |-> radius,
               pointLat |-> pointLat, pointLng |-> pointLng,
               inside |-> FALSE, distance |-> 0]
    /\ UNCHANGED <<requestVars, cache, now, inflight, bulk, page>>

\* The upstream applies the two FILTER lines; the distance is the one the
\* tier computes for a row it is given.
BoxTest ==
    /\ box.stage = "asked"
    /\ box' = [box EXCEPT
          !.stage = "tested",
          !.inside = inBoundingBox(boundingBox(box.lat, box.lng, box.radius),
                                   box.pointLat, box.pointLng),
          !.distance = calculateDistance(box.lat, box.lng, box.pointLat, box.pointLng)]
    /\ UNCHANGED <<requestVars, cache, now, inflight, bulk, page>>

BoxNext ==
    \/ \E lng \in BoxLongitudes, radius \in BoxRadii,
          pointLat \in -MaxBoxOffset..MaxBoxOffset, pointLng \in PointLongitudes :
            BoxAsk(lng, radius, pointLat, pointLng)
    \/ BoxTest

BoxSpec == Init /\ [][BoxNext]_vars

(* ------------------------------ HomePage ------------------------------ *)
\* What one /api/events fetch of the page can end with: a 200 with no
\* feature or with a feature near the location asked for, a 500, a network
\* error.
PageOutcomes(l) ==
    {[ok |-> TRUE, features |-> <<>>, message |-> ""],
     [ok |-> TRUE, features |-> <<[near |-> l]>>, message |-> ""],
     [ok |-> FALSE, features |-> <<>>, message |-> "HTTP error! status: 500"],
     [ok |-> FALSE, features |-> <<>>, message |-> "Failed to fetch"]}

\* fetchEvents up to its await: setIsLoading(true), setError(null), the
\* request is sent.
fetchEventsStart(state, l) ==
    [state EXCEPT !.isLoading = TRUE, !.error = "",
                  !.pending = [state.pending EXCEPT ![l] = @ + 1]]

\* fetchEvents from its await on: setEvents(features), or setError and
\* setEvents([]) in the catch, and setIsLoading(false) in the finally.
fetchEventsEnd(state, l, outcome) ==
    [state EXCEPT !.events = outcome.features,
                  !.error = IF outcome.ok THEN @ ELSE outcome.message,
                  !.isLoading = FALSE,
                  !.pending = [state.pending EXCEPT ![l] = @ - 1]]

\* handleMapClick: setSelectedLocation, then fetchEvents; the new
\* selectedLocation object makes the effect due.
PageClick(l) ==
    /\ ~page.effectDue
    /\ page.clicks < MaxClicks
    /\ page' = [fetchEventsStart(page, l) EXCEPT
                   !.selected = l,
                   !.effectDue = TRUE,
                   !.clicks = @ + 1,
                   !.burstClicks = @ + 1,
                   !.burstRequests = @ + 1]
    /\ UNCHANGED <<requestVars, cache, now, inflight, bulk, box>>

\* The effect on [fetchEvents, selectedLocation]: fetchEvents for the
\* selected location, on mount and after every click.
PageEffect ==
    /\ page.effectDue
    /\ page' = [fetchEventsStart(page, page.selected) EXCEPT
                   !.effectDue = FALSE,
                   !.burstRequests = IF page.burstClicks > 0 THEN @ + 1 ELSE @]
    /\ UNCHANGED <<requestVars, cache, now, inflight, bulk, box>>

\* One fetch in flight is answered and its fetchEvents runs to its end.
PageResponse(l, outcome) ==
    /\ ~page.effectDue
    /\ page.pending[l] > 0
    /\ page' = [fetchEventsEnd(page, l, outcome) EXCEPT
                   !.burstClicks = 0, !.burstRequests = 0]
    /\ UNCHANGED <<requestVars, cache, now, inflight, bulk, box>>

PageNext ==
    \/ \E l \in Locations : PageClick(l)
    \/ PageEffect
    \/ \E l \in Locations : \E outcome \in PageOutcomes(l) : PageResponse(l, outcome)

PageSpec == Init /\ [][PageNext]_vars

(* ------------------------------ claims -------------------------------- *)
Served == pc = "done" /\ status = 200

FeatureDistance(f) == calculateDistance(params.lat.v, params.lng.v, f.lat, f.lng)

NoUpstreamNoCache ==
    /\ testCalls = 0
    /\ primaryCalls = 0
    /\ fallbackCalls = 0
    /\ cacheReads = 0
    /\ cacheWrites = 0

\* C1: every feature of a 200 response lies within the requested radius of
\* the request center (a feature at exactly the radius is allowed), in both
\* output modes and whichever tier or cache entry gave the items.
C1_WithinRadius ==
    Served => \A i \in DOMAIN body : FeatureDistance(body[i]) <= params.radius.v

\* C1 witness: a coordinates-only response built from the fallback tier
\* with a feature at exactly the radius.
C1_Witness ==
    /\ Served
    /\ params.coordinatesOnly
    /\ fallbackOut.ran
    /\ \E i \in DOMAIN body :
          FeatureDistance(body[i]) = params.radius.v /\ params.radius.v > 0

\* C2: the features of a 200 response are in non-decreasing order of
\* distance from the request center.
C2_SortedByDistance ==
    Served =>
        \A i, j \in DOMAIN body :
            i < j => FeatureDistance(body[i]) <= FeatureDistance(body[j])

\* A row without numeric latitude and longitude and without a geometry
\* string to recover them from.
Unusable(b) ==
    /\ b.lat.k # "num" \/ b.lng.k # "num"
    /\ b.location.k # "point"

\* The rows the features of the response come from: by the id of the
\* feature, or, for coordinates-only features, which carry none, by the id
\* of the item each was shaped from.
ResponseRowIds ==
    IF params.coordinatesOnly
    THEN {items[i].id : i \in DOMAIN items}
    ELSE {body[i].id : i \in DOMAIN body}

\* C3: no feature of a 200 response comes from a row whose latitude or
\* longitude is missing or non-numeric and cannot be recovered.
C3_UnusableRowsDropped ==
    Served => \A b \in Bindings : b.id \in ResponseRowIds => ~Unusable(b)

\* C4: never more than one primary and one fallback query per request; when
\* the primary ran and returned no record the fallback ran exactly once and
\* the response is shaped from its output; when the primary returned a
\* record the fallback did not run and the response is shaped from the
\* primary's output.
C4_TierOrchestration ==
    /\ primaryCalls <= 1
    /\ fallbackCalls <= 1
    /\ pc = "done" /\ primaryOut.ran /\ ~primaryOut.threw =>
          IF primaryOut.items = <<>>
          THEN /\ fallbackCalls = 1
               /\ fallbackOut.ran
               /\ status = 200
               /\ body = shape(fallbackOut.items, params)
          ELSE /\ fallbackCalls = 0
               /\ ~fallbackOut.ran
               /\ status = 200
               /\ body = shape(primaryOut.items, params)

\* C4 witness: the primary ran and gave nothing, the fallback ran and gave
\* nothing, and the empty collection was answered.
C4_Witness ==
    /\ Served
    /\ primaryOut.ran
    /\ primaryOut.items = <<>>
    /\ fallbackOut.ran
    /\ fallbackOut.items = <<>>
    /\ body = <<>>

\* C5: a request served from an unexpired cache entry sends neither the
\* primary nor the fallback query, whatever the entry holds.
C5_HitSendsNoTierQuery ==
    fromCache => primaryCalls = 0 /\ fallbackCalls = 0

\* C6: after a miss, the entry stored under the request key is the final
\* item sequence of the request, the one the response is shaped from.
C6_EntryIsFinalOutput ==
    Served /\ cacheWrites = 1 =>
        \E e \in cache : e.key = cacheKey(params) /\ e.items = items

\* C7: a request served from the entry the request before it wrote, with the
\* same key and output mode, is answered the same body.
C7_RepeatIsIdentical ==
    Served /\ fromCache /\ firstBody.known => body = firstBody.body

\* A parameter text parseFloat reads no number from.
NonNumeric(s) == s.k = "junk"

\* The requests C8 names, by their query string.
BadRequest(q) ==
    LET p == parseParams(q)
    IN  \/ NonNumeric(q.lat) \/ NonNumeric(q.lng) \/ NonNumeric(q.r)
        \/ ~isNaN(p.radius) /\ (p.radius.v < MinRadius \/ p.radius.v > MaxRadius)
        \/ /\ ~isNaN(p.startYear)
           /\ ~isNaN(p.endYear)
           /\ (p.startYear.v > p.endYear.v \/ p.endYear.v > CurrentYear)

C9_LatLngRequired ==
    /\ pc # "idle"
    /\ query.lat.k \in {"absent", "empty"} \/ query.lng.k \in {"absent", "empty"}
    => pc = "done" /\ status = 400 /\ NoUpstreamNoCache

\* C10: a request is answered with the generic failure only after the
\* fallback tier has been tried.
C10_FailureAfterFallback ==
    pc = "done" /\ status = 500 => fallbackCalls >= 1

\* The fallback's fetch ended in one of the failures C11 names.
FallbackFetchFailed ==
    \/ FetchFailed(fallbackAnswer)
    \/ fallbackAnswer.kind = "nobindings"

\* C11: when the fallback tier ran and its fetch failed (timeout, rate limit
\* or other HTTP error, malformed response), the request is answered the
\* generic failure with status 500, not a feature collection.
C11_FallbackFailureIs500 ==
    pc = "done" /\ fallbackCalls = 1 /\ FallbackFetchFailed =>
        status = 500 /\ errorText = GenericFailure

\* Both tiers got an answer with result rows (the primary's possibly through
\* the cache entry it wrote earlier) and no record survived in either.
BothTiersEmpty ==
    /\ pc = "done"
    /\ fromCache \/ primaryAnswer.kind = "ok"
    /\ items = <<>>
    /\ fallbackCalls = 1
    /\ fallbackAnswer.kind = "ok"
    /\ fallbackOut.items = <<>>

\* C12: when both tiers complete without a failure and no record survives,
\* the request is answered 200 with an empty feature collection and no
\* error.
C12_EmptyIsSuccess ==
    BothTiersEmpty => status = 200 /\ body = <<>> /\ errorText = ""

\* C12 witness: both fetches were answered rows, every row was dropped, and
\* the response has been sent.
C12_Witness ==
    /\ BothTiersEmpty
    /\ ~fromCache
    /\ primaryOut.ran
    /\ status # 0

\* C13: when the primary's fetch failed (timeout, HTTP error, exception) the
\* request wrote nothing to the cache and left no usable entry under its
\* key, and the next request for the same search queries the primary again.
C13_FailedPrimaryNotCached ==
    /\ pc = "done" /\ FetchFailed(primaryAnswer) =>
          cacheWrites = 0 /\ Lookup(cacheKey(params)) = {}
    /\ prev.known /\ prev.failed /\ pc \in {"fallback", "done"} =>
          primaryCalls = 1 /\ ~fromCache

\* C13 witness: the request after a failed one, for the same search, has
\* been answered from a new primary query.
C13_Witness ==
    /\ prev.known
    /\ prev.failed
    /\ pc = "done"
    /\ status = 200
    /\ primaryCalls = 1
    /\ body # <<>>

\* C14: a request that passed validation is eventually answered, whether or
\* not the upstream responds to its fetches.
C14_RequestCompletes ==
    pc \in {"test", "query", "fallback"} ~> pc = "done"

\* C15: an unexpired cache entry stays as it is in every step, whichever
\* concurrent request takes the step.
C15_EntryKeptUntilExpiry ==
    [][\A e \in cache : Fresh(e) => e \in cache']_vars

\* C15 as the code has it: an unexpired entry is replaced only by the store
\* of a request whose lookup of the key came before the entry was written;
\* a request that looks the key up once the entry is there never replaces it.
C15_ReplacedOnlyByEarlierMiss ==
    [][\A e \in cache :
          Fresh(e) /\ e \notin cache' =>
              \E c \in Callers :
                  /\ inflight[c].pc = "fetching"
                  /\ inflight'[c].pc = "done"
                  /\ cacheKey(inflight[c].p) = e.key
                  /\ inflight[c].overtaken]_vars

\* C15 witness: a request that missed concurrently has stored its result in
\* place of an unexpired entry.
C15_Witness ==
    \E c \in Callers :
        /\ inflight[c].pc = "done"
        /\ inflight[c].overtaken
        /\ inflight[c].replaced

\* The texts of the errors raised inside queryWikidata, for every way its
\* fetch can fail.
UpstreamErrorTexts ==
    UNION {{fetchError(answer), rethrow(fetchError(answer)).message} :
              answer \in {a \in Answers : FetchFailed(Outcome(a))}}

\* C16: every 500 response has the one fixed message and no features,
\* whatever made the upstream fetch fail; the message is none of the error
\* texts raised for the upstream failure.
C16_FailureBodyIsFixed ==
    pc = "done" /\ status = 500 =>
        /\ errorText = GenericFailure
        /\ errorText \notin UpstreamErrorTexts
        /\ body = <<>>

\* C16 witness: a request whose primary fetch was answered 429 has been
\* answered 500.
C16_Witness ==
    /\ pc = "done"
    /\ status = 500
    /\ primaryAnswer = [kind |-> "http", status |-> 429]

\* C17: the features returned from one tier's answer are never more than
\* 50, for either tier and either output mode, however many rows the
\* upstream answered.
C17_AtMostFiftyFeatures ==
    bulk.stage = "returned" => Len(bulk.features) <= SliceLimit

\* C17 witness: an answer of more than 50 rows within the radius has been
\* returned as exactly 50 features.
C17_Witness ==
    /\ bulk.stage = "returned"
    /\ Len(bulk.rows) > SliceLimit
    /\ Len(bulk.features) = SliceLimit

\* The request before this one asked the same search in the other output
\* mode and stored a non-empty entry, which has not expired; this request
\* has been answered.
OtherModeAfterStore ==
    /\ pc = "done"
    /\ prev.known
    /\ prev.wrote
    /\ prev.entry.items # <<>>
    /\ prev.coordinatesOnly # params.coordinatesOnly
    /\ Seconds(now) - Seconds(prev.entry.writtenAt) < Revalidate

\* C18: a request for a search whose non-empty entry was stored by a request
\* in the other output mode is, within the entry's lifetime, shaped from the
\* stored items without a primary query.
C18_ModesShareEntry ==
    OtherModeAfterStore =>
        /\ fromCache
        /\ primaryCalls = 0
        /\ cacheWrites = 0
        /\ status = 200
        /\ body = shape(prev.entry.items, params)

\* C18 witness: a coordinates-only request has been answered features from
\* the entry a full-mode request stored.
C18_Witness ==
    /\ OtherModeAfterStore
    /\ params.coordinatesOnly
    /\ body # <<>>

\* C19: every feature of a full 200 response carries a date whose year is
\* within the startYear and endYear of the request.
C19_DatesWithinYears ==
    Served /\ ~params.coordinatesOnly =>
        \A i \in DOMAIN body :
            LET year == parseInt(body[i].date)
            IN  /\ ~isNaN(year)
                /\ params.startYear.v <= year.v
                /\ year.v <= params.endYear.v

\* C20: a request without the session of a signed-in user reaches neither
\* the cache nor the upstream.
C20_SessionRequired ==
    pc # "idle" /\ ~query.session => NoUpstreamNoCache

\* C26: a primary answer without results.bindings does not fail the
\* request: the fallback query is sent and the request is answered 200 from
\* what the fallback returns.
C26_NoBindingsFallsBack ==
    primaryAnswer.kind = "nobindings" =>
        /\ status # 500
        /\ pc \in {"fallback", "done"}
        /\ pc = "done" =>
              /\ fallbackCalls = 1
              /\ status = 200
              /\ body = shape(fallbackOut.items, params)

\* C26 witness: after a primary answer without results.bindings the
\* fallback's rows have been answered as features.
C26_Witness ==
    /\ primaryAnswer.kind = "nobindings"
    /\ pc = "done"
    /\ fallbackAnswer.kind = "ok"
    /\ body # <<>>

\* C27: a request served from an unexpired, non-empty cache entry sends no
\* request to the upstream: no connectivity test, no primary query, no
\* fallback query.
C27_HitSendsNothingUpstream ==
    fromCache /\ items # <<>> =>
        testCalls = 0 /\ primaryCalls = 0 /\ fallbackCalls = 0

\* The distance of a point from the center of the long answer's request.
BulkDistance(lat, lng) ==
    calculateDistance(BulkParams(FALSE).lat.v, BulkParams(FALSE).lng.v, lat, lng)

\* The rows of the long answer with numeric coordinates within the radius.
BulkRowsWithin ==
    {i \in DOMAIN bulk.rows :
        /\ bulk.rows[i].lat.k = "num"
        /\ bulk.rows[i].lng.k = "num"
        /\ BulkDistance(bulk.rows[i].lat.v, bulk.rows[i].lng.v)
              <= BulkParams(FALSE).radius.v}

\* C23: the features returned from a tier are the nearest of the rows
\* within the radius: fewer than 50 such rows are strictly nearer to the
\* center than any returned feature.
C23_FiftyNearest ==
    bulk.stage = "returned" =>
        \A j \in DOMAIN bulk.features :
            Cardinality({i \in BulkRowsWithin :
                BulkDistance(bulk.rows[i].lat.v, bulk.rows[i].lng.v)
                  < BulkDistance(bulk.features[j].lat, bulk.features[j].lng)})
              < SliceLimit

\* A row whose lat or lng is text that is no number and whose geometry
\* string has the form Point(a b).
UnparsedWithGeometry(b) ==
    /\ NonNumeric(b.lat) \/ NonNumeric(b.lng)
    /\ b.location.k = "point"

\* C24: a row with a non-numeric lat or lng and a geometry string within
\* the radius is returned as a feature at the point of its geometry string.
C24_UnparsedRowRecovered ==
    bulk.stage = "returned" /\ Len(bulk.rows) <= SliceLimit =>
        \A i \in DOMAIN bulk.rows :
            LET b == bulk.rows[i]
            IN  /\ UnparsedWithGeometry(b)
                /\ BulkDistance(b.location.b.v, b.location.a.v)
                      <= BulkParams(FALSE).radius.v
                => \E j \in DOMAIN bulk.features :
                      /\ bulk.features[j].lng = b.location.a.v
                      /\ bulk.features[j].lat = b.location.b.v

\* A row without lat and lng whose geometry string has the form Point(a b).
LocatedByGeometry(b) ==
    /\ b.lat.k = "absent"
    /\ b.lng.k = "absent"
    /\ b.location.k = "point"

\* C25: when every row of the answer has its coordinates in the geometry
\* string Point(a b) only, feature j is row j with longitude a and latitude
\* b, for both tiers and both output modes.
C25_LongitudeFirst ==
    /\ bulk.stage = "returned"
    /\ \A i \in DOMAIN bulk.rows : LocatedByGeometry(bulk.rows[i])
    => /\ Len(bulk.features) = Min(Len(bulk.rows), SliceLimit)
       /\ \A j \in DOMAIN bulk.features :
             /\ bulk.features[j].lng = bulk.rows[j].location.a.v
             /\ bulk.features[j].lat = bulk.rows[j].location.b.v

\* C25 witness: the fallback tier has returned, coordinates only, the
\* feature of a row given as Point(1 0): longitude 1, latitude 0.
C25_Witness ==
    /\ bulk.stage = "returned"
    /\ bulk.tier = "fallback"
    /\ bulk.coordinatesOnly
    /\ Len(bulk.rows) >= 1
    /\ \A i \in DOMAIN bulk.rows : LocatedByGeometry(bulk.rows[i])
    /\ bulk.features[1].lng = 1
    /\ bulk.features[1].lat = 0

\* C22: a point whose distance from the center is at most the radius passes
\* the bounding box filter of the tiers' query.
C22_BoxContainsCircle ==
    box.stage = "tested" /\ box.distance <= box.radius => box.inside

\* C21: clicks that follow each other with no response in between send at
\* most one /api/events request between them.
C21_ClicksDebounced ==
    page.burstClicks >= 2 => page.burstRequests <= 1

\* No fetch of the page is in flight and none is about to start.
PageQuiet ==
    /\ ~page.effectDue
    /\ \A l \in Locations : page.pending[l] = 0

\* C28: once no fetch is in flight, the events shown are those of the
\* selected location.
C28_EventsOfSelectedLocation ==
    PageQuiet /\ page.error = "" =>
        \A i \in DOMAIN page.events : page.events[i].near = page.selected

\* C29: isLoading is true while a fetch is in flight.
C29_LoadingWhileInFlight ==
    (\E l \in Locations : page.pending[l] > 0) => page.isLoading

\* C30: while error is set the events list is empty.
C30_ErrorMeansNoEvents ==
    page.error # "" => page.events = <<>>

====
